---------------------------- MODULE Spec2Model ----------------------------
(***************************************************************************)
(* A model of the protectedData server: password-protected "drops" (a     *)
(* short id resolving to a text and an optional file), the public routes  *)
(* that create, look up, verify and download them, and the admin routes   *)
(* that list, edit and delete them.                                        *)
(*                                                                         *)
(* Strings are sequences of one-character strings.  The document store is *)
(* the sequence urls, indexed by _id (a deleted document leaves NoDoc);    *)
(* the upload directory is the function disk from storage names to file   *)
(* contents.  Every request handler is cut at its awaits that touch the   *)
(* store or the disk; reqs holds each in-flight handler's local state, and *)
(* last is the response sent last, with the request it answers.            *)
(* hits is the store of the sensitive rate limiter, one count per address; *)
(* arrivals counts, per address and route, the requests of the current     *)
(* window; tokens is the set of tokens the login route has issued.         *)
(***************************************************************************)
EXTENDS Integers, Sequences, FiniteSets, TLC

VARIABLES urls, disk, nextFile, reqs, last, createLog, hits, arrivals, tokens

vars == <<urls, disk, nextFile, reqs, last, createLog, hits, arrivals, tokens>>

-----------------------------------------------------------------------------
(* Bounds of the model *)

\* handlers that may be in flight at once
MaxReqs == 2
\* documents ever inserted
MaxDrops == 2
\* files ever written to the upload directory
MaxFiles == 2
\* highest downloadCount a handler may start from
MaxDownloads == 2
\* documents ever inserted in a run that only creates
MaxCreates == 3
\* requests one address may send to the limited routes in one window
MaxHits == 12
\* requests one address may send to an unlimited route in one window
MaxTraffic == 101
\* logins of a run that is not about the limiter
MaxLogins == 2

Slots == 1..MaxReqs

\* the addresses requests come from
Clients == {"10.0.0.1", "10.0.0.2"}

\* the routes whose requests are counted per address
Counted == {"create", "verify", "login", "download"}

-----------------------------------------------------------------------------
(* Strings *)

WHITESPACE == {" ", "\n"}

Min(S) == CHOOSE x \in S : \A y \in S : x <= y
Max(S) == CHOOSE x \in S : \A y \in S : x >= y

Rep(c, n) == [i \in 1..n |-> c]

\* String.prototype.trim
Trim(s) ==
    LET keep == {i \in 1..Len(s) : s[i] \notin WHITESPACE}
    IN  IF keep = {} THEN <<>> ELSE SubSeq(s, Min(keep), Max(keep))

Prefix(s, n) == SubSeq(s, 1, IF Len(s) < n THEN Len(s) ELSE n)

UPPER == [c \in {"P", "D", "F", "E", "X"} |->
            CASE c = "P" -> "p" [] c = "D" -> "d" [] c = "F" -> "f"
              [] c = "E" -> "e" [] c = "X" -> "x"]

\* String.prototype.toLowerCase
toLowerCase(s) == [i \in 1..Len(s) |-> IF s[i] \in DOMAIN UPPER THEN UPPER[s[i]] ELSE s[i]]

\* path.extname: from the last "." of the last path segment, "" when there
\* is none or when it is the segment's first character
extname(name) ==
    LET slashes == {i \in 1..Len(name) : name[i] = "/"}
        start   == IF slashes = {} THEN 1 ELSE Max(slashes) + 1
        dots    == {i \in start..Len(name) : name[i] = "."}
    IN  IF dots = {} \/ Max(dots) = start THEN <<>>
        ELSE SubSeq(name, Max(dots), Len(name))

-----------------------------------------------------------------------------
(* middleware/validate.js *)

ALLOWED_EXTENSIONS ==
    { <<".", "p", "d", "f">>, <<".", "p", "n", "g">>, <<".", "j", "p", "g">>,
      <<".", "j", "p", "e", "g">>, <<".", "g", "i", "f">>, <<".", "z", "i", "p">>,
      <<".", "t", "x", "t">>, <<".", "d", "o", "c", "x">>,
      <<".", "x", "l", "s", "x">>, <<".", "c", "s", "v">> }

PASSWORD_MIN == 4
PASSWORD_MAX == 128
TEXT_MAX == 10000
LABEL_MAX == 100

\* a mis-written filter: accepts a name that has an allowed extension
\* anywhere in it
fileFilterAnywhere(file) ==
    \E i \in 1..Len(file.originalname) : \E j \in i..Len(file.originalname) :
        toLowerCase(SubSeq(file.originalname, i, j)) \in ALLOWED_EXTENSIONS

\* fileFilter: TRUE when multer is told to accept the file
fileFilter(file) ==
    toLowerCase(extname(file.originalname)) \in ALLOWED_EXTENSIONS

\* validateShortenInput: the reason of its 400, or "ok"
validateShortenInput(password, textContent, label) ==
    CASE Len(Trim(password)) = 0 -> "Password is required."
      [] Len(Trim(password)) < PASSWORD_MIN -> "Password must be at least 4 characters."
      [] Len(Trim(password)) > PASSWORD_MAX -> "Password must not exceed 128 characters."
      [] Len(Trim(textContent)) = 0 -> "Text content is required."
      [] Len(Trim(textContent)) > TEXT_MAX -> "Text content must not exceed 10,000 characters."
      [] Len(Trim(label)) > LABEL_MAX -> "Label must not exceed 100 characters."
      [] OTHER -> "ok"

\* a sanitising step that forgets the text
SanitizedButText(password, textContent, label) ==
    [password |-> Trim(password), textContent |-> textContent, label |-> Trim(label)]

\* validateShortenInput's last lines: req.body with its three fields trimmed
Sanitized(password, textContent, label) ==
    [password |-> Trim(password), textContent |-> Trim(textContent), label |-> Trim(label)]

\* a validation that lets every password through
validateVerifyInputLax(password) == "ok"

\* validateVerifyInput: the reason of its 400, or "ok"
validateVerifyInput(password) ==
    IF Len(Trim(password)) = 0 THEN "Password is required." ELSE "ok"

-----------------------------------------------------------------------------
(* bcrypt *)

BCRYPT_ROUNDS == 12
\* bcrypt reads no more than the first 72 bytes of its input
BCRYPT_MAX_BYTES == 72

\* a comparison that ignores the password
bcryptCompareAlways(password, hash) == TRUE

bcryptHash(password) ==
    [rounds |-> BCRYPT_ROUNDS, digest |-> Prefix(password, BCRYPT_MAX_BYTES)]

bcryptCompare(password, hash) ==
    Prefix(password, BCRYPT_MAX_BYTES) = hash.digest

-----------------------------------------------------------------------------
(* models/Url.js: the documents of the urls collection *)

NoName == <<>>
NoPath == [rand |-> 0, ext |-> <<>>]
NoDoc == [id |-> 0]
NoFile == [present |-> FALSE, originalname |-> <<>>, bytes |-> "none"]

FIRST_SERIAL == 1001

\* the documents now in the collection
Stored == {urls[i] : i \in {j \in 1..Len(urls) : urls[j] # NoDoc}}

\* Url.findOne({ shortId }): shortId carries a unique index
FindOneByShortId(shortId) ==
    IF \E d \in Stored : d.shortId = shortId
    THEN CHOOSE d \in Stored : d.shortId = shortId
    ELSE NoDoc

\* a lookup that finds nothing
FindOneBySerialNone(serial) == NoDoc

\* Url.findOne({ serialNumber }): the first match in _id order
FindOneBySerial(serial) ==
    LET found == {d \in Stored : d.serialNumber = serial}
    IN  IF found = {} THEN NoDoc
        ELSE CHOOSE d \in found : \A e \in found : d.id <= e.id

\* Url.findById
FindById(id) == IF id \in 1..Len(urls) THEN urls[id] ELSE NoDoc

\* a serial counter that forgets to add one
getNextSerialNumberStuck ==
    IF Stored = {} THEN FIRST_SERIAL ELSE Max({d.serialNumber : d \in Stored})

getNextSerialNumber ==
    IF Stored = {} THEN FIRST_SERIAL ELSE Max({d.serialNumber : d \in Stored}) + 1

\* fs.existsSync, a multer disk write, fs.unlinkSync
existsSync(path) == path \in DOMAIN disk

WriteFile(d, path, bytes) ==
    [p \in DOMAIN d \cup {path} |-> IF p = path THEN bytes ELSE d[p]]

Unlink(d, path) == [p \in DOMAIN d \ {path} |-> d[p]]

\* multer's filename callback: a fresh random name and the lower-cased extension
StorageName(file) == [rand |-> nextFile, ext |-> toLowerCase(extname(file.originalname))]

-----------------------------------------------------------------------------
(* in-flight handlers *)

Idle == [op |-> "idle", pc |-> "idle"]

Free(r) == reqs[r].pc = "idle"

InFlight(op) == {r \in Slots : reqs[r].op = op}

\* the response a handler sends: its status and body, with the request it
\* answers and the document (urlDoc) the handler held when it answered
Respond(r, op, request, urlDoc, status, body) ==
    /\ reqs' = [reqs EXCEPT ![r] = Idle]
    /\ last' = [op |-> op, request |-> request, doc |-> urlDoc,
                status |-> status, body |-> body]

NoResponse ==
    [op |-> "none", request |-> <<>>, doc |-> NoDoc, status |-> 0, body |-> [error |-> ""]]

Init ==
    /\ urls = <<>>
    /\ disk = <<>>
    /\ nextFile = 1
    /\ reqs = [r \in Slots |-> Idle]
    /\ last = NoResponse
    /\ createLog = <<>>
    /\ hits = [ip \in Clients |-> 0]
    /\ arrivals = [ip \in Clients |-> [op \in Counted |-> 0]]
    /\ tokens = {}

-----------------------------------------------------------------------------
(* POST /api/shorten *)

\* upload.single('file'), validateShortenInput, bcrypt.hash, nanoid(8)
CreateReceive(r, password, textContent, label, file, shortId) ==
    LET request == [password |-> password, textContent |-> textContent,
                    label |-> label, file |-> file]
        path    == IF file.present THEN StorageName(file) ELSE NoPath
        invalid == validateShortenInput(password, textContent, label)
        body    == Sanitized(password, textContent, label)
    IN  /\ Free(r)
        /\ UNCHANGED <<urls, createLog>>
        /\ IF file.present /\ ~fileFilter(file)
           THEN /\ Respond(r, "create", request, NoDoc, 400, [error |-> "File type not allowed"])
                /\ UNCHANGED <<disk, nextFile>>
           ELSE /\ disk' = IF file.present THEN WriteFile(disk, path, file.bytes) ELSE disk
                /\ nextFile' = IF file.present THEN nextFile + 1 ELSE nextFile
                /\ IF invalid # "ok"
                   THEN Respond(r, "create", request, NoDoc, 400, [error |-> invalid])
                   ELSE /\ UNCHANGED last
                        /\ reqs' = [reqs EXCEPT ![r] =
                          [op |-> "create", pc |-> "readMax", request |-> request,
                           doc |-> [id |-> 0,
                                    shortId |-> shortId,
                                    serialNumber |-> 0,
                                    passwordHash |-> bcryptHash(body.password),
                                    textContent |-> body.textContent,
                                    label |-> body.label,
                                    fileName |-> IF file.present THEN file.originalname ELSE NoName,
                                    filePath |-> path,
                                    downloadCount |-> 0]]]

\* await getNextSerialNumber()
CreateReadMax(r) ==
    /\ reqs[r].op = "create" /\ reqs[r].pc = "readMax"
    /\ reqs' = [reqs EXCEPT ![r].pc = "save",
                            ![r].doc.serialNumber = getNextSerialNumber]
    /\ UNCHANGED <<urls, disk, nextFile, last, createLog>>

\* await urlDoc.save(), then the 201; a duplicate shortId fails the insert
CreateSave(r) ==
    LET doc == [reqs[r].doc EXCEPT !.id = Len(urls) + 1]
    IN  /\ reqs[r].op = "create" /\ reqs[r].pc = "save"
        /\ UNCHANGED <<disk, nextFile>>
        /\ IF FindOneByShortId(doc.shortId) # NoDoc
           THEN /\ Respond(r, "create", reqs[r].request, doc, 500, [error |-> "Internal server error."])
                /\ UNCHANGED <<urls, createLog>>
           ELSE /\ urls' = Append(urls, doc)
                /\ Respond(r, "create", reqs[r].request, doc, 201,
                           [shortId |-> doc.shortId, serialNumber |-> doc.serialNumber])
                /\ createLog' = Append(createLog,
                                   [id |-> doc.id, shortId |-> doc.shortId,
                                    serialNumber |-> doc.serialNumber,
                                    password |-> reqs[r].request.password,
                                    textContent |-> reqs[r].request.textContent])

-----------------------------------------------------------------------------
(* POST /api/:shortId/verify, GET /api/search, GET /:shortId *)

NoUrl == [shortId |-> "", token |-> <<>>]
NoError == ""

\* validateVerifyInput, Url.findOne, bcrypt.compare, the content
Verify(r, shortId, password) ==
    LET request == [shortId |-> shortId, password |-> password]
        urlDoc  == FindOneByShortId(shortId)
    IN  /\ Free(r)
        /\ UNCHANGED <<urls, disk, nextFile, createLog>>
        /\ IF validateVerifyInput(password) # "ok"
           THEN Respond(r, "verify", request, NoDoc, 400, [error |-> validateVerifyInput(password)])
           ELSE IF urlDoc = NoDoc
           THEN Respond(r, "verify", request, NoDoc, 404, [error |-> "Short URL not found."])
           ELSE IF ~bcryptCompare(Trim(password), urlDoc.passwordHash)
           THEN Respond(r, "verify", request, urlDoc, 401, [error |-> "Incorrect password."])
           ELSE Respond(r, "verify", request, urlDoc, 200,
                        [error |-> NoError,
                         textContent |-> urlDoc.textContent,
                         hasFile |-> urlDoc.fileName # NoName,
                         fileName |-> urlDoc.fileName,
                         downloadUrl |-> IF urlDoc.fileName # NoName
                                         THEN [shortId |-> shortId, token |-> Trim(password)]
                                         ELSE NoUrl])

\* parseInt(req.query.serial) is given as the number it yields, 0 for NaN
Search(r, serial) ==
    LET request == [serial |-> serial]
        urlDoc  == FindOneBySerial(serial)
    IN  /\ Free(r)
        /\ UNCHANGED <<urls, disk, nextFile, createLog>>
        /\ IF serial = 0
           THEN Respond(r, "search", request, NoDoc, 400, [error |-> "A valid serial number is required."])
           ELSE IF urlDoc = NoDoc
           THEN Respond(r, "search", request, NoDoc, 404, [error |-> "No URL found with that serial number."])
           ELSE Respond(r, "search", request, urlDoc, 200,
                        [error |-> NoError, shortId |-> urlDoc.shortId,
                         serialNumber |-> urlDoc.serialNumber, label |-> urlDoc.label])

\* the verification page shell, or the 404 page
Page(r, shortId) ==
    /\ Free(r)
    /\ UNCHANGED <<urls, disk, nextFile, createLog>>
    /\ IF FindOneByShortId(shortId) = NoDoc
       THEN Respond(r, "page", [shortId |-> shortId], NoDoc, 404, [error |-> "Short URL not found"])
       ELSE Respond(r, "page", [shortId |-> shortId], NoDoc, 200, [error |-> NoError, file |-> "view.html"])

-----------------------------------------------------------------------------
(* the download URL: /api/<shortId>/download?token=<encodeURIComponent(password)> *)

\* the characters encodeURIComponent escapes, with their escapes
ESCAPES == [c \in {" ", "\n", "+", "%"} |->
              CASE c = " " -> <<"%", "2", "0">> [] c = "\n" -> <<"%", "0", "A">>
                [] c = "+" -> <<"%", "2", "B">> [] c = "%" -> <<"%", "2", "5">>]

\* an encoding that escapes nothing
encodeURIComponentRaw(s) == s

RECURSIVE encodeURIComponent(_)
encodeURIComponent(s) ==
    IF s = <<>> THEN <<>>
    ELSE (IF Head(s) \in DOMAIN ESCAPES THEN ESCAPES[Head(s)] ELSE <<Head(s)>>)
            \o encodeURIComponent(Tail(s))

\* req.query of Express: "+" is a space, "%XY" the character it escapes
RECURSIVE queryParse(_)
queryParse(s) ==
    IF s = <<>> THEN <<>>
    ELSE IF Head(s) = "+" THEN <<" ">> \o queryParse(Tail(s))
    ELSE IF Head(s) = "%" /\ Len(s) >= 3
            /\ \E c \in DOMAIN ESCAPES : ESCAPES[c] = SubSeq(s, 1, 3)
    THEN <<CHOOSE c \in DOMAIN ESCAPES : ESCAPES[c] = SubSeq(s, 1, 3)>>
            \o queryParse(SubSeq(s, 4, Len(s)))
    ELSE <<Head(s)>> \o queryParse(Tail(s))

-----------------------------------------------------------------------------
(* GET /api/:shortId/download *)

\* the token test and await Url.findOne({ shortId })
DownloadFind(r, shortId, token) ==
    LET request == [shortId |-> shortId, token |-> token]
        urlDoc  == FindOneByShortId(shortId)
    IN  /\ Free(r)
        /\ UNCHANGED <<urls, disk, nextFile, createLog>>
        /\ IF token = <<>>
           THEN Respond(r, "download", request, NoDoc, 401, [error |-> "Authentication required."])
           ELSE IF urlDoc = NoDoc
           THEN Respond(r, "download", request, NoDoc, 404, [error |-> "Short URL not found."])
           ELSE /\ UNCHANGED last
                /\ reqs' = [reqs EXCEPT ![r] =
                     [op |-> "download", pc |-> "compare", request |-> request, doc |-> urlDoc]]

\* await bcrypt.compare, fs.existsSync, urlDoc.downloadCount += 1
DownloadCompare(r) ==
    LET urlDoc == reqs[r].doc
    IN  /\ reqs[r].op = "download" /\ reqs[r].pc = "compare"
        /\ UNCHANGED <<urls, disk, nextFile, createLog>>
        /\ IF ~bcryptCompare(reqs[r].request.token, urlDoc.passwordHash)
           THEN Respond(r, "download", reqs[r].request, urlDoc, 401, [error |-> "Incorrect password."])
           ELSE IF urlDoc.filePath = NoPath \/ ~existsSync(urlDoc.filePath)
           THEN Respond(r, "download", reqs[r].request, urlDoc, 404, [error |-> "No file attached to this URL."])
           ELSE /\ UNCHANGED last
                /\ reqs' = [reqs EXCEPT ![r].pc = "save",
                                        ![r].doc.downloadCount = urlDoc.downloadCount + 1]

\* a save that never reaches the store
DownloadWriteSkipped(stored, urlDoc) == stored

\* urlDoc.save() of a loaded document whose downloadCount changed:
\* updateOne({ _id }, { $set: { downloadCount } })
DownloadWrite(stored, urlDoc) ==
    [stored EXCEPT !.downloadCount = urlDoc.downloadCount]

\* await urlDoc.save(), then res.download(urlDoc.filePath, urlDoc.fileName)
DownloadSave(r) ==
    LET urlDoc == reqs[r].doc
    IN  /\ reqs[r].op = "download" /\ reqs[r].pc = "save"
        /\ UNCHANGED <<disk, nextFile, createLog>>
        /\ IF urls[urlDoc.id] = NoDoc
           THEN /\ Respond(r, "download", reqs[r].request, urlDoc, 500, [error |-> "Internal server error."])
                /\ UNCHANGED urls
           ELSE /\ urls' = [urls EXCEPT ![urlDoc.id] = DownloadWrite(urls[urlDoc.id], urlDoc)]
                /\ IF existsSync(urlDoc.filePath)
                   THEN Respond(r, "download", reqs[r].request, urlDoc, 200,
                                [error |-> NoError, fileName |-> urlDoc.fileName,
                                 bytes |-> disk[urlDoc.filePath]])
                   ELSE Respond(r, "download", reqs[r].request, urlDoc, 500,
                                [error |-> "Internal server error."])

-----------------------------------------------------------------------------
(* routes/admin.js *)

\* an Authorization header: absent, of another scheme, or "Bearer <token>";
\* a token is described by the key that signed it and by whether it has expired
NoHeader == [present |-> FALSE, scheme |-> "", signedWith |-> "", expired |-> FALSE]
AdminBearer == [present |-> TRUE, scheme |-> "Bearer", signedWith |-> "JWT_SECRET", expired |-> FALSE]
BasicHeader == [present |-> TRUE, scheme |-> "Basic", signedWith |-> "JWT_SECRET", expired |-> FALSE]
MalformedBearer == [present |-> TRUE, scheme |-> "Bearer", signedWith |-> "", expired |-> FALSE]
ForgedBearer == [present |-> TRUE, scheme |-> "Bearer", signedWith |-> "another key", expired |-> FALSE]

\* the header a client makes of a token it holds, and the token once its
\* 24 hours have passed
Bearer(token) ==
    [present |-> TRUE, scheme |-> "Bearer", signedWith |-> token.signedWith,
     expired |-> token.expired]
Expired(token) == [token EXCEPT !.expired = TRUE]

\* a guard with one reason for every failure
authenticateAdminOneReason(header) ==
    IF header.present /\ header.scheme = "Bearer"
       /\ header.signedWith = "JWT_SECRET" /\ ~header.expired
    THEN "ok"
    ELSE "Invalid or expired token."

\* a guard that reads the scheme and nothing else
authenticateAdminSchemeOnly(header) ==
    IF header.present /\ header.scheme = "Bearer"
    THEN "ok"
    ELSE "Access denied. No token provided."

\* authenticateAdmin: the reason of its 401, or "ok"
authenticateAdmin(header) ==
    IF ~header.present \/ header.scheme # "Bearer"
    THEN "Access denied. No token provided."
    ELSE IF header.signedWith # "JWT_SECRET" \/ header.expired
    THEN "Invalid or expired token."
    ELSE "ok"

\* a field of a multipart body that may be absent
Absent == [has |-> FALSE, val |-> <<>>]
Field(v) == [has |-> TRUE, val |-> v]

\* a document sent whole
SansHashKept(d) == d

\* the document without its passwordHash
SansHash(d) == [k \in DOMAIN d \ {"passwordHash"} |-> d[k]]

\* GET /api/admin/urls
AdminList(r, header) ==
    /\ Free(r)
    /\ UNCHANGED <<urls, disk, nextFile, createLog>>
    /\ IF authenticateAdmin(header) # "ok"
       THEN Respond(r, "list", [header |-> header], NoDoc, 401, [error |-> authenticateAdmin(header)])
       ELSE Respond(r, "list", [header |-> header], NoDoc, 200,
                    [error |-> NoError, urls |-> {SansHash(d) : d \in Stored}])

\* PUT: authenticateAdmin, upload.single('file'), await Url.findById
UpdateFind(r, header, id, label, textContent, deleteFile, file) ==
    LET request == [header |-> header, id |-> id, label |-> label,
                    textContent |-> textContent, deleteFile |-> deleteFile, file |-> file]
        path    == IF file.present THEN StorageName(file) ELSE NoPath
        urlDoc  == FindById(id)
    IN  /\ Free(r)
        /\ UNCHANGED <<urls, createLog>>
        /\ IF authenticateAdmin(header) # "ok"
           THEN /\ Respond(r, "update", request, NoDoc, 401, [error |-> authenticateAdmin(header)])
                /\ UNCHANGED <<disk, nextFile>>
           ELSE IF file.present /\ ~fileFilter(file)
           THEN /\ Respond(r, "update", request, NoDoc, 400, [error |-> "File type not allowed"])
                /\ UNCHANGED <<disk, nextFile>>
           ELSE /\ disk' = IF file.present THEN WriteFile(disk, path, file.bytes) ELSE disk
                /\ nextFile' = IF file.present THEN nextFile + 1 ELSE nextFile
                /\ IF urlDoc = NoDoc
                   THEN Respond(r, "update", request, NoDoc, 404, [error |-> "URL not found."])
                   ELSE /\ UNCHANGED last
                        /\ reqs' = [reqs EXCEPT ![r] =
                          [op |-> "update", pc |-> "apply", request |-> request,
                           doc |-> urlDoc, dirty |-> {}, path |-> path]]

\* assigning v to a path of a loaded document: the path becomes modified
\* when v differs from the value the document holds
Assign(h, k, v) ==
    [h EXCEPT !.doc = [@ EXCEPT ![k] = v],
              !.dirty = IF h.doc[k] = v THEN @ ELSE @ \cup {k}]

\* the handler between findById and save: the label and textContent checks,
\* the removal of the old file, the new fileName and filePath
UpdateApply(r) ==
    LET h   == reqs[r]
        q   == h.request
        h1  == IF q.label.has THEN Assign(h, "label", Trim(q.label.val)) ELSE h
        h2  == IF q.textContent.has
               THEN Assign(h1, "textContent", Trim(q.textContent.val)) ELSE h1
        h3  == IF q.deleteFile \/ q.file.present
               THEN Assign(Assign(h2, "fileName", NoName), "filePath", NoPath) ELSE h2
        h4  == IF q.file.present
               THEN Assign(Assign(h3, "fileName", q.file.originalname), "filePath", h.path)
               ELSE h3
    IN  /\ h.op = "update" /\ h.pc = "apply"
        /\ UNCHANGED <<urls, nextFile, createLog>>
        /\ IF q.label.has /\ Len(q.label.val) > LABEL_MAX
           THEN /\ Respond(r, "update", q, h.doc, 400,
                           [error |-> "Label must be a string of 100 characters or fewer."])
                /\ UNCHANGED disk
           ELSE IF q.textContent.has
                   /\ (Len(Trim(q.textContent.val)) = 0 \/ Len(q.textContent.val) > TEXT_MAX)
           THEN /\ Respond(r, "update", q, h1.doc, 400,
                           [error |-> "Text content must be 1-10,000 characters."])
                /\ UNCHANGED disk
           ELSE /\ disk' = IF (q.deleteFile \/ q.file.present)
                              /\ h.doc.filePath # NoPath /\ existsSync(h.doc.filePath)
                           THEN Unlink(disk, h.doc.filePath) ELSE disk
                /\ UNCHANGED last
                /\ reqs' = [reqs EXCEPT ![r] = [h4 EXCEPT !.pc = "save"]]

\* a save that writes the whole document as the handler holds it
UpdateWriteWhole(stored, urlDoc, dirty) == urlDoc

\* a save that leaves fileName out of its $set
UpdateWriteButName(stored, urlDoc, dirty) ==
    [k \in DOMAIN stored |-> IF k \in dirty \ {"fileName"} THEN urlDoc[k] ELSE stored[k]]

\* urlDoc.save() of a loaded document: updateOne({ _id }, { $set: <modified paths> })
UpdateWrite(stored, urlDoc, dirty) ==
    [k \in DOMAIN stored |-> IF k \in dirty THEN urlDoc[k] ELSE stored[k]]

\* await urlDoc.save(), then the document without its passwordHash
UpdateSave(r) ==
    LET h == reqs[r]
    IN  /\ h.op = "update" /\ h.pc = "save"
        /\ UNCHANGED <<disk, nextFile, createLog>>
        /\ IF urls[h.doc.id] = NoDoc
           THEN /\ Respond(r, "update", h.request, h.doc, 500, [error |-> "Internal server error."])
                /\ UNCHANGED urls
           ELSE /\ urls' = [urls EXCEPT ![h.doc.id] = UpdateWrite(urls[h.doc.id], h.doc, h.dirty)]
                /\ Respond(r, "update", h.request, h.doc, 200, [error |-> NoError, url |-> SansHash(h.doc)])

\* DELETE: authenticateAdmin, await Url.findById
DeleteFind(r, header, id) ==
    LET request == [header |-> header, id |-> id]
        urlDoc  == FindById(id)
    IN  /\ Free(r)
        /\ UNCHANGED <<urls, disk, nextFile, createLog>>
        /\ IF authenticateAdmin(header) # "ok"
           THEN Respond(r, "delete", request, NoDoc, 401, [error |-> authenticateAdmin(header)])
           ELSE IF urlDoc = NoDoc
           THEN Respond(r, "delete", request, NoDoc, 404, [error |-> "URL not found."])
           ELSE /\ UNCHANGED last
                /\ reqs' = [reqs EXCEPT ![r] =
                  [op |-> "delete", pc |-> "unlink", request |-> request, doc |-> urlDoc]]

\* fs.existsSync and fs.unlinkSync of the path findById returned
DeleteUnlink(r) ==
    LET urlDoc == reqs[r].doc
    IN  /\ reqs[r].op = "delete" /\ reqs[r].pc = "unlink"
        /\ UNCHANGED <<urls, nextFile, last, createLog>>
        /\ disk' = IF urlDoc.filePath # NoPath /\ existsSync(urlDoc.filePath)
                   THEN Unlink(disk, urlDoc.filePath) ELSE disk
        /\ reqs' = [reqs EXCEPT ![r].pc = "remove"]

\* a delete that answers 200 and removes nothing
DeleteRemoveKept(r) ==
    /\ reqs[r].op = "delete" /\ reqs[r].pc = "remove"
    /\ UNCHANGED <<urls, disk, nextFile, createLog>>
    /\ Respond(r, "delete", reqs[r].request, reqs[r].doc, 200, [error |-> NoError])

\* await Url.findByIdAndDelete, then the 200
DeleteRemove(r) ==
    /\ reqs[r].op = "delete" /\ reqs[r].pc = "remove"
    /\ UNCHANGED <<disk, nextFile, createLog>>
    /\ urls' = [urls EXCEPT ![reqs[r].doc.id] = NoDoc]
    /\ Respond(r, "delete", reqs[r].request, reqs[r].doc, 200, [error |-> NoError])

\* the admin collection as scripts/seedAdmin.js leaves it
ADMIN_USERNAME == <<"r", "o", "o", "t">>
ADMIN_PASSWORD == <<"s", "e", "c", "r", "e", "t">>
Admins == {[id |-> 1, username |-> ADMIN_USERNAME, passwordHash |-> bcryptHash(ADMIN_PASSWORD)]}

\* validateAdminLogin: the reason of its 400, or "ok"
validateAdminLogin(username, password) ==
    IF Len(Trim(username)) = 0 THEN "Username is required."
    ELSE IF Len(Trim(password)) = 0 THEN "Password is required."
    ELSE "ok"

\* jwt.sign({ id, username }, JWT_SECRET, { expiresIn: '24h' })
jwtSign(admin) ==
    [id |-> admin.id, username |-> admin.username, signedWith |-> "JWT_SECRET", expired |-> FALSE]

\* POST /api/admin/login: validateAdminLogin, Admin.findOne, bcrypt.compare, jwt.sign
Login(r, username, password) ==
    LET request == [username |-> username, password |-> password]
        found   == {a \in Admins : a.username = Trim(username)}
        admin   == CHOOSE a \in found : TRUE
    IN  /\ Free(r)
        /\ UNCHANGED <<urls, disk, nextFile, createLog>>
        /\ IF validateAdminLogin(username, password) # "ok"
           THEN /\ Respond(r, "login", request, NoDoc, 400,
                           [error |-> validateAdminLogin(username, password)])
                /\ UNCHANGED tokens
           ELSE IF found = {} \/ ~bcryptCompare(Trim(password), admin.passwordHash)
           THEN /\ Respond(r, "login", request, NoDoc, 401, [error |-> "Invalid credentials."])
                /\ UNCHANGED tokens
           ELSE /\ Respond(r, "login", request, NoDoc, 200,
                           [error |-> NoError, success |-> TRUE, token |-> jwtSign(admin)])
                /\ tokens' = tokens \cup {jwtSign(admin)}

-----------------------------------------------------------------------------
(* middleware/rateLimiter.js *)

SENSITIVE_MAX == 10
GENERAL_MAX == 100

\* a limiter that lets every request through
sensitiveLimiterOpen(totalHits) == "next"

\* sensitiveLimiter, for the request that is the address's totalHits-th of
\* the window: the error of its 429, or "next"
sensitiveLimiter(totalHits) ==
    IF totalHits > SENSITIVE_MAX
    THEN "Too many attempts. Please try again after 15 minutes."
    ELSE "next"

\* the limiter's store counts the request; the request is one more of its
\* route from the address in this window
Hit(ip) == hits' = [hits EXCEPT ![ip] = @ + 1]
Arrive(ip, op) == arrivals' = [arrivals EXCEPT ![ip][op] = @ + 1]

\* windowMs has passed for the address: its counters start again
WindowEnds ==
    \E ip \in Clients :
        /\ \E op \in Counted : arrivals[ip][op] > 0
        /\ hits' = [hits EXCEPT ![ip] = 0]
        /\ arrivals' = [arrivals EXCEPT ![ip] = [op \in Counted |-> 0]]
        /\ UNCHANGED <<urls, disk, nextFile, reqs, last, createLog, tokens>>

\* the 429 of a limiter
TooMany(r, op, ip, error) ==
    /\ Respond(r, op, [ip |-> ip], NoDoc, 429, [error |-> error])
    /\ UNCHANGED <<urls, disk, nextFile, createLog>>

-----------------------------------------------------------------------------
(* Requests *)

pwAbcd == <<"a", "b", "c", "d">>
pwAbcX == <<"a", "b", "c", "X">>
pwPadded == <<" ", "a", "b", "c", "d", "\n">>
pwShort == <<"a", "b", "c">>
pwBlank == <<" ", " ", " ", " ", " ">>
pwLongB == Rep("a", BCRYPT_MAX_BYTES) \o <<"b">>
pwLongC == Rep("a", BCRYPT_MAX_BYTES) \o <<"c">>
pwTooLong == Rep("a", PASSWORD_MAX + 1)
pwPlus == <<"a", "+", "b", " ", "c">>
pwPercent == <<"%", "2", "0", "b", "c">>

txHi == <<"h", "i">>
txPadded == <<" ", "h", " ", "i", "\n">>
txBlank == <<" ", "\n">>

lbNone == <<>>
lbTag == <<"t", "a", "g">>
lbPadded == Rep("x", LABEL_MAX) \o <<" ">>
lbTooLong == Rep("x", LABEL_MAX + 1)

filePdf == [present |-> TRUE, originalname |-> <<"r", ".", "p", "d", "f">>, bytes |-> "pdf bytes"]
fileUpper == [present |-> TRUE, originalname |-> <<"R", ".", "P", "D", "F">>, bytes |-> "PDF bytes"]
fileExe == [present |-> TRUE, originalname |-> <<"x", ".", "e", "x", "e">>, bytes |-> "exe bytes"]
fileDouble == [present |-> TRUE,
               originalname |-> <<"r", ".", "p", "d", "f", ".", "e", "x", "e">>,
               bytes |-> "exe bytes"]
fileNoExt == [present |-> TRUE, originalname |-> <<"p", "d", "f">>, bytes |-> "raw bytes"]
fileDot == [present |-> TRUE, originalname |-> <<".", "p", "d", "f">>, bytes |-> "dot bytes"]

\* what the clients of a run send, and how many documents and files it may make
Concurrent ==
    [createPw |-> {pwAbcd}, verifyPw |-> {pwAbcd, pwAbcX},
     text |-> {txHi}, label |-> {lbNone},
     file |-> {NoFile, filePdf}, shortId |-> {"s1"},
     header |-> {AdminBearer},
     newLabel |-> {Absent}, newText |-> {Absent}, deleteFile |-> {FALSE},
     newFile |-> {NoFile, fileUpper}, serial |-> {FIRST_SERIAL},
     drops |-> MaxDrops, files |-> MaxFiles, downloads |-> MaxDownloads]

\* a handler starts: any time, or only when no other handler is in flight
\* (a new handler takes the lowest free slot: slots are interchangeable)
MayStart(r, oneAtATime) ==
    /\ \A o \in Slots : o < r => ~Free(o)
    /\ oneAtATime => \A o \in Slots : Free(o)

Create(in, oneAtATime) ==
    /\ UNCHANGED <<hits, arrivals, tokens>>
    /\ \E r \in Slots :
        \/ /\ MayStart(r, oneAtATime)
           /\ Len(urls) + Cardinality(InFlight("create")) < in.drops
           /\ \E password \in in.createPw, textContent \in in.text, label \in in.label,
                 file \in in.file, shortId \in in.shortId :
                 /\ file.present => nextFile <= in.files
                 /\ CreateReceive(r, password, textContent, label, file, shortId)
        \/ CreateReadMax(r)
        \/ CreateSave(r)

Public(in, oneAtATime) ==
    /\ UNCHANGED <<hits, arrivals, tokens>>
    /\ \E r \in Slots :
        /\ MayStart(r, oneAtATime)
        /\ \/ \E shortId \in in.shortId, password \in in.verifyPw : Verify(r, shortId, password)
           \/ \E serial \in in.serial : Search(r, serial)
           \/ \E shortId \in in.shortId : Page(r, shortId)

Download(in, oneAtATime, oneDownload) ==
    /\ UNCHANGED <<hits, arrivals, tokens>>
    /\ \E r \in Slots :
        \/ /\ MayStart(r, oneAtATime)
           /\ oneDownload => InFlight("download") = {}
           /\ \E shortId \in in.shortId, token \in in.verifyPw :
                 /\ FindOneByShortId(shortId) # NoDoc
                        => FindOneByShortId(shortId).downloadCount < in.downloads
                 /\ DownloadFind(r, shortId, token)
        \/ DownloadCompare(r)
        \/ DownloadSave(r)

AdminUpdate(in, oneAtATime) ==
    /\ UNCHANGED <<hits, arrivals, tokens>>
    /\ \E r \in Slots :
        \/ /\ MayStart(r, oneAtATime)
           /\ \E header \in in.header, id \in 1..in.drops, label \in in.newLabel,
                 textContent \in in.newText, deleteFile \in in.deleteFile,
                 file \in in.newFile :
                 /\ file.present => nextFile <= in.files
                 /\ UpdateFind(r, header, id, label, textContent, deleteFile, file)
        \/ UpdateApply(r)
        \/ UpdateSave(r)

AdminDelete(in, oneAtATime) ==
    /\ UNCHANGED <<hits, arrivals, tokens>>
    /\ \E r \in Slots :
        \/ /\ MayStart(r, oneAtATime)
           /\ \E header \in in.header, id \in 1..in.drops : DeleteFind(r, header, id)
        \/ DeleteUnlink(r)
        \/ DeleteRemove(r)

AdminRead(in, oneAtATime) ==
    /\ UNCHANGED <<hits, arrivals, tokens>>
    /\ \E r \in Slots :
        /\ MayStart(r, oneAtATime)
        /\ \E header \in in.header : AdminList(r, header)

\* routes/url.js: POST /api/shorten behind sensitiveLimiter
LimitedCreate(in) ==
    /\ UNCHANGED tokens
    /\ \E r \in Slots :
        \/ /\ MayStart(r, TRUE)
           /\ \E ip \in in.clients :
                 /\ hits[ip] < in.traffic
                 /\ Hit(ip)
                 /\ Arrive(ip, "create")
                 /\ IF sensitiveLimiter(hits[ip] + 1) # "next"
                    THEN TooMany(r, "create", ip, sensitiveLimiter(hits[ip] + 1))
                    ELSE /\ Len(urls) < in.drops
                         /\ \E password \in in.createPw, textContent \in in.text,
                               label \in in.label, file \in in.file, shortId \in in.shortId :
                               /\ file.present => nextFile <= in.files
                               /\ CreateReceive(r, password, textContent, label, file, shortId)
        \/ /\ CreateReadMax(r)
           /\ UNCHANGED <<hits, arrivals>>
        \/ /\ CreateSave(r)
           /\ UNCHANGED <<hits, arrivals>>

\* routes/url.js: POST /api/:shortId/verify behind the same sensitiveLimiter
LimitedVerify(in) ==
    /\ UNCHANGED tokens
    /\ \E r \in Slots :
        /\ MayStart(r, TRUE)
        /\ \E ip \in in.clients :
              /\ hits[ip] < in.traffic
              /\ Hit(ip)
              /\ Arrive(ip, "verify")
              /\ IF sensitiveLimiter(hits[ip] + 1) # "next"
                 THEN TooMany(r, "verify", ip, sensitiveLimiter(hits[ip] + 1))
                 ELSE \E shortId \in in.shortId, password \in in.verifyPw :
                         Verify(r, shortId, password)

\* routes/admin.js: POST /api/admin/login, which no limiter precedes
AdminLogin(in, oneAtATime) ==
    /\ UNCHANGED hits
    /\ \E r \in Slots :
        /\ MayStart(r, oneAtATime)
        /\ \E ip \in in.clients, username \in in.username, password \in in.adminPw :
              /\ arrivals[ip]["login"] < in.traffic
              /\ Arrive(ip, "login")
              /\ Login(r, username, password)

\* GET /api/:shortId/download, which no limiter precedes, its requests counted
CountedDownload(in) ==
    /\ UNCHANGED <<hits, tokens>>
    /\ \E r \in Slots :
        \/ /\ MayStart(r, TRUE)
           /\ \E ip \in in.clients, shortId \in in.shortId, token \in in.verifyPw :
                 /\ arrivals[ip]["download"] < in.traffic
                 /\ FindOneByShortId(shortId) # NoDoc
                        => FindOneByShortId(shortId).downloadCount < in.downloads
                 /\ Arrive(ip, "download")
                 /\ DownloadFind(r, shortId, token)
        \/ /\ DownloadCompare(r)
           /\ UNCHANGED arrivals
        \/ /\ DownloadSave(r)
           /\ UNCHANGED arrivals

\* a download with the URL the verify answered last has given, or once more
\* with the URL of the download answered last
FollowDownload(in) ==
    /\ UNCHANGED <<hits, arrivals, tokens>>
    /\ \E r \in Slots :
        \/ /\ MayStart(r, TRUE)
           /\ last.status = 200
           /\ last.op \in {"verify", "download"}
           /\ FindOneByShortId(last.request.shortId) # NoDoc
                  => FindOneByShortId(last.request.shortId).downloadCount < in.downloads
           /\ \/ /\ last.op = "verify"
                 /\ last.body.downloadUrl # NoUrl
                 /\ DownloadFind(r, last.body.downloadUrl.shortId,
                                 queryParse(encodeURIComponent(last.body.downloadUrl.token)))
              \/ /\ last.op = "download"
                 /\ DownloadFind(r, last.request.shortId, last.request.token)
        \/ DownloadCompare(r)
        \/ DownloadSave(r)

\* every route, handlers interleaving at their awaits
Next ==
    \/ Create(Concurrent, FALSE)
    \/ Public(Concurrent, FALSE)
    \/ Download(Concurrent, FALSE, FALSE)
    \/ AdminUpdate(Concurrent, FALSE)
    \/ AdminDelete(Concurrent, FALSE)
    \/ AdminRead(Concurrent, FALSE)

Spec == Init /\ [][Next]_vars

\* every route interleaving, except that downloads run one at a time
NextOneDownload ==
    \/ Create(Concurrent, FALSE)
    \/ Public(Concurrent, FALSE)
    \/ Download(Concurrent, FALSE, TRUE)
    \/ AdminUpdate(Concurrent, FALSE)
    \/ AdminDelete(Concurrent, FALSE)
    \/ AdminRead(Concurrent, FALSE)

SpecOneDownload == Init /\ [][NextOneDownload]_vars

\* creations and admin deletions, one request at a time
Deleting ==
    [createPw |-> {pwAbcd}, text |-> {txHi}, label |-> {lbNone},
     file |-> {NoFile, filePdf}, shortId |-> {"s1", "s2"},
     header |-> {AdminBearer, NoHeader},
     drops |-> MaxCreates, files |-> MaxFiles]

NextCreateDelete ==
    \/ Create(Deleting, TRUE)
    \/ AdminDelete(Deleting, TRUE)

SpecCreateDelete == Init /\ [][NextCreateDelete]_vars

\* creation and the read-only public routes, one request at a time, with
\* passwords and texts of every kind and no admin at work
Passwords ==
    [createPw |-> {pwAbcd, pwPadded, pwLongB, pwShort, pwBlank, pwTooLong},
     verifyPw |-> {pwAbcd, pwPadded, pwAbcX, pwLongB, pwLongC, pwBlank, <<>>},
     text |-> {txHi, txPadded, txBlank}, label |-> {lbNone},
     file |-> {NoFile}, shortId |-> {"s1", "s2"},
     serial |-> {0, FIRST_SERIAL},
     drops |-> MaxDrops, files |-> MaxFiles]

NextVerify ==
    \/ Create(Passwords, TRUE)
    \/ Public(Passwords, TRUE)

SpecVerify == Init /\ [][NextVerify]_vars

\* nothing but creations, one at a time, with every kind of upload
Uploads ==
    [createPw |-> {pwAbcd, pwShort}, text |-> {txHi, txBlank}, label |-> {lbNone},
     file |-> {NoFile, filePdf, fileExe, fileDouble, fileNoExt, fileDot},
     shortId |-> {"s1", "s2", "s3"},
     drops |-> MaxCreates, files |-> MaxFiles]

NextCreates == Create(Uploads, TRUE)

SpecCreates == Init /\ [][NextCreates]_vars

\* nothing but creations, interleaving
Racing ==
    [createPw |-> {pwAbcd}, text |-> {txHi}, label |-> {lbNone},
     file |-> {NoFile, filePdf}, shortId |-> {"s1", "s2"},
     drops |-> MaxCreates, files |-> MaxFiles]

NextCreateRace == Create(Racing, FALSE)

SpecCreateRace == Init /\ [][NextCreateRace]_vars

\* the limited routes of routes/url.js, one request at a time, from two
\* addresses, over more than one window
Limited ==
    [clients |-> Clients, traffic |-> MaxHits,
     createPw |-> {pwAbcd, pwShort}, verifyPw |-> {pwAbcd, pwAbcX},
     text |-> {txHi}, label |-> {lbNone}, file |-> {NoFile}, shortId |-> {"s1"},
     drops |-> MaxDrops, files |-> MaxFiles]

NextLimited ==
    \/ LimitedCreate(Limited)
    \/ LimitedVerify(Limited)
    \/ WindowEnds

SpecLimited == Init /\ [][NextLimited]_vars

\* nothing but logins, from two addresses
Logins ==
    [clients |-> Clients, traffic |-> MaxHits,
     username |-> {ADMIN_USERNAME, <<"g", "u", "e", "s", "t">>, <<" ">>},
     adminPw |-> {ADMIN_PASSWORD, pwAbcd, <<>>}]

NextLogins ==
    \/ AdminLogin(Logins, TRUE)
    \/ WindowEnds

SpecLogins == Init /\ [][NextLogins]_vars

\* one drop with a file and one address guessing its password at the
\* download route
Guessing ==
    [clients |-> {"10.0.0.1"}, traffic |-> MaxTraffic,
     createPw |-> {pwAbcd}, verifyPw |-> {pwAbcd, pwAbcX, <<>>},
     text |-> {txHi}, label |-> {lbNone}, file |-> {filePdf}, shortId |-> {"s1"},
     drops |-> 1, files |-> MaxFiles, downloads |-> MaxDownloads]

NextGuessing ==
    \/ Create(Guessing, TRUE)
    \/ CountedDownload(Guessing)
    \/ WindowEnds

SpecGuessing == Init /\ [][NextGuessing]_vars

\* creation and the read-only public routes, one request at a time, of drops
\* with and without a label and a file
Lookups ==
    [createPw |-> {pwAbcd}, verifyPw |-> {pwAbcd},
     text |-> {txHi}, label |-> {lbNone, lbTag},
     file |-> {NoFile, filePdf}, shortId |-> {"s1", "s2"},
     serial |-> {0, FIRST_SERIAL, FIRST_SERIAL + 1},
     drops |-> MaxDrops, files |-> MaxFiles]

NextLookups ==
    \/ Create(Lookups, TRUE)
    \/ Public(Lookups, TRUE)

SpecLookups == Init /\ [][NextLookups]_vars

\* every route, one request at a time, the admin routes called with every
\* kind of Authorization header: none, another scheme, a malformed or forged
\* token, and each token a login has issued, before and after its expiry
Authorizing ==
    [clients |-> {"10.0.0.1"}, traffic |-> MaxLogins,
     username |-> {ADMIN_USERNAME, <<"g", "u", "e", "s", "t">>},
     adminPw |-> {ADMIN_PASSWORD, pwAbcd},
     header |-> {NoHeader, BasicHeader, MalformedBearer, ForgedBearer}
                    \cup {Bearer(t) : t \in tokens}
                    \cup {Bearer(Expired(t)) : t \in tokens},
     createPw |-> {pwAbcd}, verifyPw |-> {pwAbcd, pwAbcX},
     text |-> {txHi}, label |-> {lbNone},
     file |-> {NoFile, filePdf}, shortId |-> {"s1"},
     newLabel |-> {Absent, Field(lbTag)}, newText |-> {Absent},
     deleteFile |-> {FALSE, TRUE}, newFile |-> {NoFile, fileUpper},
     serial |-> {FIRST_SERIAL},
     drops |-> MaxDrops, files |-> MaxFiles, downloads |-> MaxDownloads]

NextAuthorizing ==
    \/ Create(Authorizing, TRUE)
    \/ Public(Authorizing, TRUE)
    \/ Download(Authorizing, TRUE, TRUE)
    \/ AdminLogin(Authorizing, TRUE)
    \/ AdminRead(Authorizing, TRUE)
    \/ AdminUpdate(Authorizing, TRUE)
    \/ AdminDelete(Authorizing, TRUE)

SpecAuthorizing == Init /\ [][NextAuthorizing]_vars

\* creations and admin updates that replace or delete the file, interleaving
Updating ==
    [createPw |-> {pwAbcd}, text |-> {txHi}, label |-> {lbNone},
     file |-> {NoFile, filePdf}, shortId |-> {"s1"},
     header |-> {AdminBearer},
     newLabel |-> {Absent}, newText |-> {Absent},
     deleteFile |-> {FALSE, TRUE}, newFile |-> {NoFile, fileUpper},
     drops |-> MaxDrops, files |-> MaxFiles + 1]

NextUpdating ==
    \/ Create(Updating, FALSE)
    \/ AdminUpdate(Updating, FALSE)

SpecUpdating == Init /\ [][NextUpdating]_vars

\* creations, verifications, downloads and admin edits of the label, the
\* text and the file, interleaving
Editing ==
    [createPw |-> {pwAbcd}, verifyPw |-> {pwAbcd},
     text |-> {txHi}, label |-> {lbNone},
     file |-> {filePdf}, shortId |-> {"s1"},
     header |-> {AdminBearer},
     newLabel |-> {Field(lbTag)}, newText |-> {Absent, Field(txPadded)},
     deleteFile |-> {FALSE}, newFile |-> {NoFile, fileUpper},
     serial |-> {FIRST_SERIAL},
     drops |-> MaxDrops, files |-> MaxFiles, downloads |-> MaxDownloads]

NextEditing ==
    \/ Create(Editing, FALSE)
    \/ Public(Editing, FALSE)
    \/ Download(Editing, FALSE, FALSE)
    \/ AdminUpdate(Editing, FALSE)

SpecEditing == Init /\ [][NextEditing]_vars

\* creation, verification and the downloads that follow a verification, one
\* request at a time, with passwords that the URL must escape
Following ==
    [createPw |-> {pwAbcd, pwPadded, pwPlus, pwPercent},
     verifyPw |-> {pwAbcd, pwAbcX, pwPlus, pwPercent},
     text |-> {txHi}, label |-> {lbNone},
     file |-> {NoFile, filePdf}, shortId |-> {"s1", "s2"},
     serial |-> {FIRST_SERIAL},
     drops |-> MaxDrops, files |-> MaxFiles, downloads |-> MaxDownloads]

NextFollowing ==
    \/ Create(Following, TRUE)
    \/ Public(Following, TRUE)
    \/ FollowDownload(Following)

SpecFollowing == Init /\ [][NextFollowing]_vars

\* creations and admin updates, one request at a time: updates of drops that
\* exist and of ids that do not, with labels, texts and files that pass and
\* that fail the checks
Revising ==
    [createPw |-> {pwAbcd}, text |-> {txHi}, label |-> {lbPadded},
     file |-> {filePdf}, shortId |-> {"s1", "s2"},
     header |-> {AdminBearer},
     newLabel |-> {Absent, Field(lbPadded)},
     newText |-> {Absent, Field(txBlank), Field(txPadded)},
     deleteFile |-> {FALSE}, newFile |-> {NoFile, fileUpper, fileExe},
     drops |-> MaxDrops, files |-> MaxFiles + 1]

NextRevising ==
    \/ Create(Revising, TRUE)
    \/ AdminUpdate(Revising, TRUE)

SpecRevising == Init /\ [][NextRevising]_vars

\* creations behind the limiter of routes/url.js, with and without a file of
\* an allowed extension, with passwords, texts and labels that pass and that
\* fail validateShortenInput
Rejecting ==
    [clients |-> {"10.0.0.1"}, traffic |-> MaxHits,
     createPw |-> {pwAbcd, pwShort}, text |-> {txHi, txBlank},
     label |-> {lbNone, lbTooLong}, file |-> {NoFile, filePdf}, shortId |-> {"s1", "s2"},
     drops |-> MaxDrops, files |-> MaxFiles]

NextRejecting ==
    \/ LimitedCreate(Rejecting)
    \/ WindowEnds

SpecRejecting == Init /\ [][NextRejecting]_vars

-----------------------------------------------------------------------------
(* Properties *)

\* the step sends a response: a handler goes back to idle
Responds ==
    \E r \in Slots : reqs'[r] = Idle /\ (reqs[r] # Idle \/ reqs' = reqs)

\* the step sends the response of an op with one of the statuses
Sends(op, statuses) == Responds /\ last'.op = op /\ last'.status \in statuses

\* the password is one the hash was made from
Matches(password, hash) == hash = bcryptHash(password)

PublicOps == {"create", "search", "verify", "download", "page"}

\* C1: a public response holds a drop's textContent or file only when it
\* answers a verify or download request for that drop whose password (as
\* the route reads it: verify trims it, download takes the token as sent)
\* matches the drop's passwordHash; every other public response holds neither.
C1_ContentOnlyWithPassword ==
    last.op \in PublicOps =>
        /\ "textContent" \in DOMAIN last.body =>
              /\ last.op = "verify"
              /\ last.doc # NoDoc
              /\ last.doc.shortId = last.request.shortId
              /\ last.body.textContent = last.doc.textContent
              /\ Matches(Trim(last.request.password), last.doc.passwordHash)
        /\ "bytes" \in DOMAIN last.body =>
              /\ last.op = "download"
              /\ last.doc # NoDoc
              /\ last.doc.shortId = last.request.shortId
              /\ last.doc.filePath # NoPath
              /\ Matches(last.request.token, last.doc.passwordHash)

C1_Witness ==
    /\ last.op = "download" /\ last.status = 200
    /\ last.body.bytes = filePdf.bytes
    /\ Matches(last.request.token, last.doc.passwordHash)

\* the step ends a download with the file sent
DownloadSucceeds(r) ==
    /\ reqs[r].op = "download" /\ reqs[r].pc = "save" /\ reqs'[r] = Idle
    /\ last'.op = "download" /\ last'.status = 200

DownloadCountOf(store, id) == store[id].downloadCount

\* C4: with downloads run one at a time, a download that succeeds raises the
\* drop's downloadCount by exactly 1, a download answered 401 or 404 changes
\* no document, a new document starts at 0, and a stored document's
\* downloadCount changes in no step but the save of a download of it.
C4_CountPerDownload ==
    [][ /\ \A r \in Slots : DownloadSucceeds(r) =>
              DownloadCountOf(urls', reqs[r].doc.id)
                  = DownloadCountOf(urls, reqs[r].doc.id) + 1
        /\ Sends("download", {401, 404}) => urls' = urls
        /\ \A id \in 1..Len(urls') :
              \/ id > Len(urls) /\ DownloadCountOf(urls', id) = 0
              \/ id <= Len(urls) /\ (urls[id] = NoDoc \/ urls'[id] = NoDoc)
              \/ id <= Len(urls) /\ DownloadCountOf(urls', id) = DownloadCountOf(urls, id)
              \/ \E r \in Slots : /\ reqs[r].op = "download" /\ reqs[r].pc = "save"
                                  /\ reqs[r].doc.id = id /\ reqs'[r] = Idle
      ]_vars

C4_Witness ==
    /\ last.op = "download" /\ last.status = 200
    /\ \E d \in Stored : d.id = last.doc.id /\ d.downloadCount = MaxDownloads

\* C5: every download that succeeds raises the drop's downloadCount by one,
\* however the downloads of a drop interleave: k of them raise it by k.
C5_NoLostIncrement ==
    [][ \A r \in Slots : DownloadSucceeds(r) =>
            DownloadCountOf(urls', reqs[r].doc.id)
                = DownloadCountOf(urls, reqs[r].doc.id) + 1 ]_vars

\* C7: a serialNumber given to a drop is never given to a later drop,
\* whatever was deleted in between.
C7_SerialNeverReused ==
    \A i, j \in 1..Len(createLog) :
        i # j => createLog[i].serialNumber # createLog[j].serialNumber

\* the step ends a delete with its 200
DeleteSucceeds(r) ==
    /\ reqs[r].op = "delete" /\ reqs[r].pc = "remove" /\ reqs'[r] = Idle
    /\ last'.op = "delete" /\ last'.status = 200

\* C10: when a delete answers 200 the document is gone and so is the file
\* the document held, whatever overlapped the delete; an authorised delete
\* that starts when the id holds no document answers 404.
C10_DeleteRemovesRecordAndFile ==
    [][ /\ \A r \in Slots : DeleteSucceeds(r) =>
              /\ urls'[reqs[r].doc.id] = NoDoc
              /\ \A d \in Stored :
                    d.id = reqs[r].doc.id /\ d.filePath # NoPath
                        => d.filePath \notin DOMAIN disk'
        /\ ( /\ last'.op = "delete" /\ last' # last /\ reqs' = reqs
              /\ authenticateAdmin(last'.request.header) = "ok"
              /\ FindById(last'.request.id) = NoDoc )
              => last'.status = 404
      ]_vars

\* the entry of createLog for the document: the request that made it
Creation(id) == CHOOSE e \in {createLog[i] : i \in 1..Len(createLog)} : e.id = id

\* the status of a verify that finds the drop, by the claim as written and
\* by the code: q is the password sent, p the password given at creation
VerifyStatusExact(q, p) == IF q = p THEN 200 ELSE 401

VerifyStatusTrimmed(q, p) ==
    IF Trim(q) = <<>> THEN 400
    ELSE IF Prefix(Trim(q), BCRYPT_MAX_BYTES) = Prefix(Trim(p), BCRYPT_MAX_BYTES) THEN 200
    ELSE 401

\* C2 as written: a verify of an existing drop succeeds when the password
\* sent is exactly the one given at creation, and answers 401 otherwise.
C2_ExactPasswordOnly ==
    [][ Sends("verify", {200, 400, 401, 404})
          /\ FindOneByShortId(last'.request.shortId) # NoDoc
        => last'.status =
             VerifyStatusExact(last'.request.password,
                               Creation(FindOneByShortId(last'.request.shortId).id).password)
      ]_vars

\* C2 amended: a verify of an existing drop succeeds exactly when the
\* password sent and the password given at creation, both trimmed, agree in
\* their first 72 characters; a password that is empty once trimmed gets the
\* 400 of the validation, every other password the 401.
C2_TrimmedPasswordOnly ==
    [][ Sends("verify", {200, 400, 401, 404})
          /\ FindOneByShortId(last'.request.shortId) # NoDoc
        => last'.status =
             VerifyStatusTrimmed(last'.request.password,
                                 Creation(FindOneByShortId(last'.request.shortId).id).password)
      ]_vars

C2_Witness ==
    /\ last.op = "verify" /\ last.status = 200
    /\ last.request.password = pwLongC
    /\ Creation(last.doc.id).password = pwLongB

\* C3 as written: a verify that succeeds returns the textContent given at
\* creation, character for character.
C3_TextRoundTrip ==
    [][ Sends("verify", {200})
        => last'.body.textContent = Creation(last'.doc.id).textContent ]_vars

\* C3 amended: a verify that succeeds returns the textContent given at
\* creation with its leading and trailing whitespace removed.
C3_TrimmedTextRoundTrip ==
    [][ Sends("verify", {200})
        => last'.body.textContent = Trim(Creation(last'.doc.id).textContent) ]_vars

C3_Witness ==
    /\ last.op = "verify" /\ last.status = 200
    /\ Creation(last.doc.id).textContent = txPadded
    /\ last.body.textContent = <<"h", " ", "i">>

C8_StoredSerialsDistinct ==
    \A d, e \in Stored : d.id # e.id => d.serialNumber # e.serialNumber

\* the file's extension, lower-cased, is not in the allow-list
Disallowed(file) ==
    file.present /\ toLowerCase(extname(file.originalname)) \notin ALLOWED_EXTENSIONS

\* C9: a create whose file has an extension outside the allow-list gets a
\* 400 at once, with no document inserted and no file written, whatever its
\* other fields are; no handler goes on with such a file.
C9_DisallowedFileRejected ==
    [][ /\ Sends("create", {201, 400, 500}) /\ Disallowed(last'.request.file)
           => /\ last'.status = 400
              /\ reqs' = reqs
              /\ urls' = urls
              /\ disk' = disk
        /\ \A r \in Slots : reqs'[r].op = "create" => ~Disallowed(reqs'[r].request.file)
      ]_vars

C9_Witness ==
    /\ last.op = "create" /\ last.status = 400
    /\ last.request.file = fileDouble
    /\ validateShortenInput(last.request.password, last.request.textContent,
                            last.request.label) = "ok"


\* the step is the arrival of one more request of the route from the address
Arrives(ip, op) == arrivals'[ip][op] = arrivals[ip][op] + 1

\* the step answers 429
Refuses(op) == last'.op = op /\ last'.status = 429 /\ reqs' = reqs

\* C11: of the Create requests of one address in one window, the 11th and
\* every later one is answered 429 and changes nothing, so at most 10 are
\* admitted; one that arrives when the address has sent fewer than 10
\* requests to the limited routes in the window is admitted; a request
\* changes no other address's count, and after the window's end the count
\* starts again.
C11_CreateLimited ==
    [][\A ip \in Clients :
        Arrives(ip, "create") =>
            /\ arrivals[ip]["create"] >= SENSITIVE_MAX =>
                    /\ Refuses("create")
                    /\ UNCHANGED <<urls, disk, nextFile, createLog>>
            /\ arrivals[ip]["create"] + arrivals[ip]["verify"] < SENSITIVE_MAX =>
                    ~Refuses("create")
            /\ \A other \in Clients \ {ip} :
                    hits'[other] = hits[other] /\ arrivals'[other] = arrivals[other]]_vars

\* an 11th Create is refused while the other address, and the same address
\* in a new window, are served
C11_Witness ==
    /\ last.op = "create" /\ last.status = 429
    /\ \E ip \in Clients : arrivals[ip]["create"] = SENSITIVE_MAX + 1
    /\ \E ip \in Clients : arrivals[ip]["create"] = 1 /\ hits[ip] = 1

\* C12: a Login that arrives after 10 Logins of the same address in the
\* window is answered 429, its credentials unread.
C12_LoginLimited ==
    [][\A ip \in Clients :
        Arrives(ip, "login") /\ arrivals[ip]["login"] >= SENSITIVE_MAX
            => Refuses("login") /\ tokens' = tokens]_vars

\* C13: a Download that arrives after 100 requests of the same address in
\* the window is answered 429.
C13_DownloadLimited ==
    [][\A ip \in Clients :
        Arrives(ip, "download") /\ arrivals[ip]["download"] >= GENERAL_MAX
            => Refuses("download")]_vars

\* the drops holding the serial, and a search answer that is the pointer to
\* one of them and nothing more
Holders(serial) == {d \in Stored : d.serialNumber = serial}
PointsTo(body, d) ==
    /\ DOMAIN body \ {"error"} = {"shortId", "serialNumber", "label"}
    /\ body.shortId = d.shortId
    /\ body.serialNumber = d.serialNumber
    /\ body.label = d.label

\* C14 as written: every search answers 404 when no drop holds the serial
\* and otherwise 200 with exactly shortId, serialNumber and label of a drop
\* holding it, and changes no document and no file.
C14_LookupIsPointer ==
    [][last' # last /\ last'.op = "search" =>
        /\ UNCHANGED <<urls, disk, nextFile, createLog>>
        /\ IF Holders(last'.request.serial) = {}
           THEN last'.status = 404
           ELSE /\ last'.status = 200
                /\ \E d \in Holders(last'.request.serial) : PointsTo(last'.body, d)]_vars

\* C14 amended: a search whose serial is missing, not a number or 0 answers
\* 400; every other search answers 404 when no drop holds the serial and
\* otherwise 200 with exactly shortId, serialNumber and label of a drop
\* holding it; no search changes a document or a file.
C14_LookupIsPointerOrInvalid ==
    [][last' # last /\ last'.op = "search" =>
        /\ UNCHANGED <<urls, disk, nextFile, createLog>>
        /\ IF last'.request.serial = 0
           THEN last'.status = 400 /\ DOMAIN last'.body = {"error"}
           ELSE IF Holders(last'.request.serial) = {}
           THEN last'.status = 404 /\ DOMAIN last'.body = {"error"}
           ELSE /\ last'.status = 200
                /\ \E d \in Holders(last'.request.serial) : PointsTo(last'.body, d)]_vars

\* a search finds a drop that has a label and a file
C14_Witness ==
    /\ last.op = "search" /\ last.status = 200
    /\ last.body.label = lbTag
    /\ \E d \in Holders(last.request.serial) : d.filePath # NoPath /\ existsSync(d.filePath)

\* the documents and the token a response body carries
Documents(body) ==
    (IF "url" \in DOMAIN body THEN {body.url} ELSE {})
        \cup (IF "urls" \in DOMAIN body THEN body.urls ELSE {})
        \cup (IF "token" \in DOMAIN body THEN {body.token} ELSE {})

\* the body has the field, at its top or in a document it carries
Carries(body, field) ==
    \/ field \in DOMAIN body
    \/ \E d \in Documents(body) : field \in DOMAIN d

\* C15: no response of any route, successful or failed, carries a
\* passwordHash, of a drop or of an admin, at its top, in a document or in
\* a token.
C15_NoHashInResponse == ~Carries(last.body, "passwordHash")

\* the admin list answers with the stored drops
C15_Witness ==
    /\ last.op = "list" /\ last.status = 200
    /\ last.body.urls # {}
    /\ \A u \in last.body.urls : \E d \in Stored : d.id = u.id /\ d.shortId = u.shortId

\* C16: no response carries the path under which a drop's file is stored.
C16_NoPathInResponse ==
    \A d \in Documents(last.body) : "filePath" \in DOMAIN d => d.filePath = NoPath

AdminOps == {"list", "update", "delete"}

\* C17 as written: any two refusals of the admin guard that follow one
\* another carry the same status and the same reason.
C17_OneUnauthorized ==
    [][/\ last.op \in AdminOps /\ last.status = 401
       /\ last'.op \in AdminOps /\ last'.status = 401
       => last'.body = last.body]_vars

\* C17 amended: every refusal of the admin guard is a 401; a missing header
\* and a header of another scheme get the reason "no token provided", and a
\* malformed token, a token of another signature and an expired token all
\* get the one reason "invalid or expired token".
C17_TwoUnauthorized ==
    last.op \in AdminOps =>
        LET header == last.request.header
        IN  /\ ~header.present \/ header.scheme # "Bearer" =>
                  /\ last.status = 401
                  /\ last.body = [error |-> "Access denied. No token provided."]
            /\ /\ header.present /\ header.scheme = "Bearer"
               /\ header.signedWith # "JWT_SECRET" \/ header.expired
               => /\ last.status = 401
                  /\ last.body = [error |-> "Invalid or expired token."]

\* an update is refused for its expired token
C17_Witness ==
    /\ last.op = "update" /\ last.status = 401
    /\ \E t \in tokens : last.request.header = Bearer(Expired(t))

\* the header holds a token that a login issued and that has not expired
Authorized(header) ==
    /\ header.present /\ header.scheme = "Bearer" /\ ~header.expired
    /\ \E t \in tokens : header = Bearer(t)

\* C18: an admin handler runs, and an admin request gets another answer than
\* 401, only with a token that a login issued for an existing username and
\* its password and that has not expired; every other admin request gets
\* 401 at once and changes no document and no file.
C18_AdminOnlyWithToken ==
    /\ [](\A r \in Slots : reqs[r].op \in AdminOps => Authorized(reqs[r].request.header))
    /\ [](\A t \in tokens : \E a \in Admins : a.id = t.id /\ a.username = t.username)
    /\ [][last' # last /\ last'.op \in AdminOps =>
            IF Authorized(last'.request.header)
            THEN last'.status # 401
            ELSE /\ last'.status = 401
                 /\ reqs' = reqs
                 /\ UNCHANGED <<urls, disk, nextFile, createLog>>]_vars

\* a delete with a forged token is refused while the drop and its file stay
C18_Witness ==
    /\ last.op = "delete" /\ last.status = 401
    /\ last.request.header = ForgedBearer
    /\ \E d \in Stored : d.id = last.request.id /\ existsSync(d.filePath)

\* C19: every stored drop that has a file path has its file in the upload
\* directory.
C19_NoDanglingRecord ==
    \A d \in Stored : d.filePath # NoPath => existsSync(d.filePath)

\* C20: every stored drop has its fileName and its filePath both null or
\* both set, however the updates that replace or delete its file interleave.
C20_NameAndPathTogether ==
    \A d \in Stored : (d.fileName = NoName) <=> (d.filePath = NoPath)

\* two updates of one drop are between their find and their save, one
\* deleting the file and one replacing it
C20_Witness ==
    \E r, o \in Slots :
        /\ reqs[r].op = "update" /\ reqs[r].pc = "save" /\ reqs[r].request.deleteFile
        /\ reqs[o].op = "update" /\ reqs[o].pc = "save" /\ reqs[o].request.file.present
        /\ reqs[r].doc.id = reqs[o].doc.id
        /\ reqs[r].doc.fileName = NoName /\ reqs[o].doc.fileName # NoName

\* the fields in which two versions of a document differ
Differ(a, b) == {k \in DOMAIN a : a[k] # b[k]}

AnswersAtOnce(op) == reqs' = reqs /\ last' # last /\ last'.op = op

\* a document was inserted under the id and has been deleted
Gone(id) == id \in 1..Len(urls) /\ urls[id] = NoDoc

\* C22: a delete that answers 200 has removed the document; a removed
\* document never comes back, whatever download or update read it before
\* and saves after; an authorised update or delete of a removed id, and a
\* verify or download of a shortId that no stored drop has, is answered 404
\* (when it passes the tests that precede the lookup), and no handler goes
\* on with a removed document.
C22_DeletedIsTerminal ==
    [][ /\ \A r \in Slots : DeleteSucceeds(r) => urls'[reqs[r].doc.id] = NoDoc
        /\ \A id \in 1..Len(urls) : urls[id] = NoDoc => urls'[id] = NoDoc
        /\ \A r \in Slots :
              reqs[r] = Idle /\ reqs'[r] # Idle /\ reqs'[r].op \in {"download", "update", "delete"}
                  => ~Gone(reqs'[r].doc.id)
        /\ AnswersAtOnce("delete") /\ authenticateAdmin(last'.request.header) = "ok"
              /\ Gone(last'.request.id) => last'.status = 404
        /\ AnswersAtOnce("update") /\ authenticateAdmin(last'.request.header) = "ok"
              /\ (last'.request.file.present => fileFilter(last'.request.file))
              /\ Gone(last'.request.id) => last'.status = 404
        /\ AnswersAtOnce("verify") /\ validateVerifyInput(last'.request.password) = "ok"
              /\ (\A d \in Stored : d.shortId # last'.request.shortId) => last'.status = 404
        /\ AnswersAtOnce("download") /\ last'.request.token # <<>>
              /\ (\A d \in Stored : d.shortId # last'.request.shortId) => last'.status = 404
      ]_vars

\* a download that read the drop before its deletion and saved after it has
\* failed, and the drop is still gone
C22_Witness ==
    /\ last.op = "download" /\ last.status = 500
    /\ Gone(last.doc.id)
    /\ \A d \in Stored : d.shortId # last.request.shortId

\* C23: a verify that succeeds gives a download URL exactly when the drop
\* has a file; a download with that URL, nothing else having happened since,
\* sends the drop's file under its name, and so does the same download made
\* again.
C23_DownloadUrlWorks ==
    /\ [](last.op = "verify" /\ last.status = 200 =>
            /\ last.body.downloadUrl # NoUrl
                  <=> last.doc.filePath # NoPath /\ last.doc.filePath \in DOMAIN disk
            /\ last.body.hasFile <=> last.body.downloadUrl # NoUrl)
    /\ [][\A r \in Slots :
            reqs[r].op = "download" /\ reqs'[r] = Idle =>
                /\ last'.status = 200
                /\ last'.body.fileName = urls[reqs[r].doc.id].fileName
                /\ last'.body.bytes = disk[urls[reqs[r].doc.id].filePath]]_vars
    /\ [][AnswersAtOnce("download") => FALSE]_vars

\* the URL of a password with a space and a plus sign has served two downloads
C23_Witness ==
    /\ last.op = "download" /\ last.status = 200
    /\ last.request.token = pwPlus
    /\ \E d \in Stored : d.shortId = last.request.shortId /\ d.downloadCount = MaxDownloads

\* C24: no two stored drops have the same shortId; a creation whose generated
\* shortId is the one of a stored drop leaves that drop as it is and does not
\* fail: it ends with the 201 of a drop stored under another shortId.
C24_CollisionRetried ==
    /\ [](\A i, j \in DOMAIN urls :
            urls[i] # NoDoc /\ urls[j] # NoDoc /\ urls[i].shortId = urls[j].shortId => i = j)
    /\ [][\A r \in Slots :
            /\ reqs[r].op = "create" /\ reqs[r].pc = "save" /\ reqs'[r] = Idle
            /\ FindOneByShortId(reqs[r].doc.shortId) # NoDoc
            => /\ \A i \in DOMAIN urls : urls'[i] = urls[i]
               /\ last'.status = 201
               /\ last'.body.shortId # reqs[r].doc.shortId]_vars

\* C25: an admin update accepts a label and a text exactly when a creation
\* would accept them; an update answered 400 or 404 leaves every stored drop
\* as it was and the upload directory as it was before the request: the old
\* file is there and the file uploaded with the request is not.
C25_RejectedUpdateNoEffect ==
    /\ [][\A r \in Slots :
            reqs[r].op = "update" /\ reqs[r].pc = "apply" /\ reqs'[r] # reqs[r] =>
                LET q == reqs[r].request
                    asCreate == validateShortenInput(pwAbcd,
                                    IF q.textContent.has THEN q.textContent.val ELSE txHi,
                                    IF q.label.has THEN q.label.val ELSE lbNone)
                IN  (reqs'[r] = Idle /\ last'.status = 400) <=> asCreate # "ok"]_vars
    /\ [][Sends("update", {400, 404}) =>
            /\ urls' = urls
            /\ DOMAIN disk' \subseteq DOMAIN disk
            /\ \A p \in DOMAIN disk : p \in DOMAIN disk' /\ disk'[p] = disk[p]
            /\ \A r \in Slots : reqs[r].op = "update" /\ reqs[r].path # NoPath
                    => reqs[r].path \notin DOMAIN disk']_vars

\* C26: a creation answered 429 by the limiter, or 400 for its password, text
\* or label, changes neither the stored drops nor the upload directory, with
\* or without a file of an allowed type in the request.
C26_RejectedCreateNoEffect ==
    [][Sends("create", {400, 429}) => urls' = urls /\ disk' = disk]_vars

====
